---------------------------- MODULE Spec2Model ----------------------------
(***************************************************************************)
(* Model of the DynamicWaterSand cellular automata.                        *)
(*                                                                         *)
(*  - simulation.js : the sand-art engine (class Simulation and its        *)
(*    helpers ParticleProperties, BubbleManager, SandPhysics,              *)
(*    BubblePhysics).  One tick (Simulation.update) is the sequence        *)
(*    BeginTick, one UpdateParticle per non-Empty cell in scan order,      *)
(*    EndTick; Flip happens only between ticks (single-threaded host).     *)
(*  - bubbles.js : the closed-system voxel bubble simulator                *)
(*    (updatePhysics, three passes with processed flags).                  *)
(*  - unnamed/part_000 : the SPH variant of the bubble simulator, whose    *)
(*    passes check the connectivity of the air before a move.              *)
(*                                                                         *)
(* Specifications: Spec (the engine from a freshly populated grid),        *)
(* DenseSpec (the engine in its last tick, from a mixed grid), BubbleSpec  *)
(* (the bubble simulator), ClusterSpec (BubbleManager.findClusters called  *)
(* repeatedly on one grid), SphSpec (the SPH variant).                     *)
(*                                                                         *)
(* Numbers: probabilities and frictions are in twentieths (0.3 = 6/20),    *)
(* a Math.random() draw compared with a constant is a Boolean outcome,     *)
(* a draw compared with a friction is a value of Rand.                     *)
(***************************************************************************)
EXTENDS Integers, Sequences, FiniteSets, TLC

(***************************************************************************)
(* Bounds of the model.                                                    *)
(***************************************************************************)
\* grid dimensions (simulation.js derives 150 x 100 from the canvas size)
GRID_WIDTH == 3
GRID_HEIGHT == 3
\* number of cells of an initial grid that differ from its background
MaxParticles == 2
\* number of ticks (animation frames) of a run
MaxTicks == 2

(***************************************************************************)
(* simulation.js: constants                                                *)
(***************************************************************************)
EMPTY == 0
WATER == 1
SAND_HEAVY == 2
SAND_MEDIUM == 3
SAND_LIGHT == 4
AIR == 5

PARTICLE_TYPES == {EMPTY, WATER, SAND_HEAVY, SAND_MEDIUM, SAND_LIGHT, AIR}

PARTICLE_DENSITY(t) ==
    CASE t = EMPTY -> 0
      [] t = WATER -> 1000
      [] t = SAND_HEAVY -> 2500
      [] t = SAND_MEDIUM -> 2200
      [] t = SAND_LIGHT -> 1900
      [] t = AIR -> 1
      [] OTHER -> 0

\* PHYSICS_PARAMS
SURFACE_TENSION_FACTOR == 2
BUBBLE_SEARCH_RADIUS == 3
\* frictions and masses in twentieths: 0.3, 0.5, default 0.4; 1.0, 1.5, default 1.2
SAND_FRICTION_MIN == 6
SAND_FRICTION_MAX == 10
DEFAULT_FRICTION == 8
SAND_MASS_MIN == 20
SAND_MASS_MAX == 30
DEFAULT_MASS == 24
\* MAX_SLOPE_RATIO 0.7 in thirtieths (calculateLocalSlope divides by 3.0)
MAX_SLOPE_RATIO == 21
\* getHeightBelow: boundary height, air barrier height, scan depths
BOUNDARY_HEIGHT == 1000
AIR_BARRIER_HEIGHT == 5
HEIGHT_SCAN == 10
SLOPE_SCAN == 5
GAP_DEPTH == 3
ATTRACTION_RADIUS == 3

\* outcomes of a Math.random() draw that is compared with a friction, in
\* twentieths: below every friction, between a halved and a full friction,
\* above every friction
Rand == {0, 6, 19}

(***************************************************************************)
(* Grid                                                                    *)
(***************************************************************************)
Cells == (0 .. GRID_WIDTH - 1) \X (0 .. GRID_HEIGHT - 1)
NumCells == GRID_WIDTH * GRID_HEIGHT

InRange(x, y) == x >= 0 /\ x < GRID_WIDTH /\ y >= 0 /\ y < GRID_HEIGHT

\* grid[y][x]; a read outside the grid yields no particle type
OutOfGrid == 99
At(g, x, y) == IF InRange(x, y) THEN g[<<x, y>>] ELSE OutOfGrid

Abs(n) == IF n < 0 THEN -n ELSE n
Min(a, b) == IF a < b THEN a ELSE b
Max(a, b) == IF a > b THEN a ELSE b

(***************************************************************************)
(* class ParticleProperties: the friction and mass maps keyed by "x,y".    *)
(* props[c] is Undef when the key is absent.                               *)
(***************************************************************************)
Undef == [friction |-> 0, mass |-> 0]

getProperties(p, x, y) ==
    [friction |-> IF p[<<x, y>>].friction = 0 THEN DEFAULT_FRICTION
                  ELSE p[<<x, y>>].friction,
     mass |-> IF p[<<x, y>>].mass = 0 THEN DEFAULT_MASS ELSE p[<<x, y>>].mass]

\* this.friction[toKey] = this.friction[fromKey]; delete this.friction[fromKey]
moveProperties(p, fromX, fromY, toX, toY) ==
    [[p EXCEPT ![<<toX, toY>>] = p[<<fromX, fromY>>]]
        EXCEPT ![<<fromX, fromY>>] = Undef]

(***************************************************************************)
(* class SandPhysics                                                       *)
(***************************************************************************)
isSand(t) == t = SAND_HEAVY \/ t = SAND_MEDIUM \/ t = SAND_LIGHT

canMoveTo(g, x, y) ==
    IF x < 0 \/ x >= GRID_WIDTH \/ y < 0 \/ y >= GRID_HEIGHT THEN FALSE
    ELSE g[<<x, y>>] = EMPTY

\* a move {x, y, type}, or null
Null == [x |-> -1, y |-> -1, type |-> "null"]
Move(x, y, type) == [x |-> x, y |-> y, type |-> type]

\* the loop of getHeightBelow from offset dy on, with the height so far
RECURSIVE heightLoop(_, _, _, _, _)
heightLoop(g, x, y, dy, height) ==
    IF ~(dy < HEIGHT_SCAN /\ y + dy < GRID_HEIGHT) THEN height
    ELSE IF isSand(g[<<x, y + dy>>]) THEN heightLoop(g, x, y, dy + 1, height + 1)
    ELSE IF g[<<x, y + dy>>] = AIR
         THEN heightLoop(g, x, y, dy + 1, height + AIR_BARRIER_HEIGHT)
    ELSE height

getHeightBelow(g, x, y) ==
    IF x < 0 \/ x >= GRID_WIDTH THEN BOUNDARY_HEIGHT
    ELSE heightLoop(g, x, y, 1, 0)

\* one side loop of calculateLocalSlope: sand cells stacked in column sx.  The
\* left loop tests x - 1 >= 0 and the right loop x + 1 < gridWidth; the other
\* test holds of every column next to one calculateLocalSlope is called with
RECURSIVE slopeLoop(_, _, _, _, _)
slopeLoop(g, sx, y, dy, height) ==
    IF ~(dy < SLOPE_SCAN /\ y + dy < GRID_HEIGHT) THEN height
    ELSE IF sx >= 0 /\ sx < GRID_WIDTH /\ isSand(g[<<sx, y + dy>>])
         THEN slopeLoop(g, sx, y, dy + 1, height + 1)
    ELSE height

\* heightDiff / 3.0, in thirtieths
calculateLocalSlope(g, x, y) ==
    Abs(slopeLoop(g, x - 1, y, 1, 0) - slopeLoop(g, x + 1, y, 1, 0)) * 10

\* the directions with the side of the higher stack first
slideDirections_HigherFirst(g, x, y) ==
    IF getHeightBelow(g, x - 1, y) < getHeightBelow(g, x + 1, y)
    THEN <<1, -1>> ELSE <<-1, 1>>

\* the directions of tryLateralSlide in the order they are tried
slideDirections(g, x, y) ==
    IF getHeightBelow(g, x - 1, y) < getHeightBelow(g, x + 1, y)
    THEN <<-1, 1>> ELSE <<1, -1>>

\* one iteration of the loop of tryLateralSlide; r is the draw
slideAllowed(g, x, y, dx, friction, r) ==
    /\ x + dx >= 0 /\ x + dx < GRID_WIDTH
    /\ canMoveTo(g, x + dx, y)
    /\ calculateLocalSlope(g, x + dx, y) < MAX_SLOPE_RATIO
    /\ r > friction

tryLateralSlide(g, x, y, friction, r1, r2) ==
    LET dirs == slideDirections(g, x, y) IN
    IF slideAllowed(g, x, y, dirs[1], friction, r1) THEN Move(x + dirs[1], y, "slide")
    ELSE IF slideAllowed(g, x, y, dirs[2], friction, r2)
         THEN Move(x + dirs[2], y, "slide")
    ELSE Null

\* the vertical scan of findGapInBarrier in column sx from row checkY to row
\* last: the number of Empty cells, or -1 when Air or Sand blocks the path
RECURSIVE gapLoop(_, _, _, _, _)
gapLoop(g, sx, checkY, last, quality) ==
    IF checkY > last THEN quality
    ELSE IF g[<<sx, checkY>>] = EMPTY THEN gapLoop(g, sx, checkY + 1, last, quality + 1)
    ELSE IF g[<<sx, checkY>>] = AIR THEN -1
    ELSE IF isSand(g[<<sx, checkY>>]) THEN -1
    ELSE gapLoop(g, sx, checkY + 1, last, quality)

gapQuality(g, x, y, dx) ==
    IF x + dx >= 0 /\ x + dx < GRID_WIDTH
    THEN gapLoop(g, x + dx, y + 1, Min(y + GAP_DEPTH, GRID_HEIGHT - 1), 0)
    ELSE -1

\* the offsets pushed to gaps: hasPath && gapQuality > 0
gapCandidates(g, x, y) ==
    {dx \in ((-BUBBLE_SEARCH_RADIUS) .. BUBBLE_SEARCH_RADIUS) \ {0} :
        gapQuality(g, x, y, dx) > 0}

\* gaps.sort((a, b) => b.quality - a.quality || a.distance - b.distance): a is
\* placed before b; the sort is stable, so equal entries keep the push order
gapBefore(g, x, y, a, b) ==
    \/ gapQuality(g, x, y, a) > gapQuality(g, x, y, b)
    \/ /\ gapQuality(g, x, y, a) = gapQuality(g, x, y, b)
       /\ \/ Abs(a) < Abs(b)
          \/ Abs(a) = Abs(b) /\ a <= b

findGapInBarrier(g, x, y, targetY) ==
    LET gaps == gapCandidates(g, x, y) IN
    IF gaps # {}
    THEN LET best == CHOOSE a \in gaps : \A b \in gaps : gapBefore(g, x, y, a, b)
         IN Move(x + best, targetY, "gap")
    ELSE Null

\* a diagonal search that gives up after the first direction
diagonalMove_FirstOnly(g, x, nextY, leftFirst) ==
    LET d1 == IF leftFirst THEN -1 ELSE 1 IN
    IF x + d1 >= 0 /\ x + d1 < GRID_WIDTH /\ canMoveTo(g, x + d1, nextY)
    THEN Move(x + d1, nextY, "diagonal")
    ELSE Null

\* the first diagonal of findBestPath that can be moved to; leftFirst is the
\* outcome of sorting the two directions by their random priorities
diagonalMove(g, x, nextY, leftFirst) ==
    LET d1 == IF leftFirst THEN -1 ELSE 1
        d2 == IF leftFirst THEN 1 ELSE -1
        ok(d) == x + d >= 0 /\ x + d < GRID_WIDTH /\ canMoveTo(g, x + d, nextY)
    IN IF ok(d1) THEN Move(x + d1, nextY, "diagonal")
       ELSE IF ok(d2) THEN Move(x + d2, nextY, "diagonal")
       ELSE Null

\* a path search that tries the diagonals before the straight fall
findBestPath_DiagonalFirst(g, x, y, gravity, friction, leftFirst, r1, r2) ==
    LET nextY == y + gravity IN
    IF nextY < 0 \/ nextY >= GRID_HEIGHT THEN Null
    ELSE IF diagonalMove(g, x, nextY, leftFirst) # Null
         THEN diagonalMove(g, x, nextY, leftFirst)
    ELSE IF canMoveTo(g, x, nextY) THEN Move(x, nextY, "fall")
    ELSE Null

\* findBestPath: straight fall, diagonals, gap search, lateral slide
findBestPath(g, x, y, gravity, friction, leftFirst, r1, r2) ==
    LET nextY == y + gravity IN
    IF nextY < 0 \/ nextY >= GRID_HEIGHT THEN Null
    ELSE IF canMoveTo(g, x, nextY) THEN Move(x, nextY, "fall")
    ELSE IF diagonalMove(g, x, nextY, leftFirst) # Null
         THEN diagonalMove(g, x, nextY, leftFirst)
    ELSE IF findGapInBarrier(g, x, y, nextY) # Null
         THEN findGapInBarrier(g, x, y, nextY)
    ELSE tryLateralSlide(g, x, y, friction, r1, r2)

(***************************************************************************)
(* class BubbleCluster, class BubbleManager                                *)
(***************************************************************************)
Infinity == 1000000

NewCluster ==
    [cells |-> {}, minX |-> Infinity, maxX |-> -Infinity,
     minY |-> Infinity, maxY |-> -Infinity]

addCell(cl, x, y) ==
    [cells |-> cl.cells \cup {<<x, y>>},
     minX |-> Min(cl.minX, x), maxX |-> Max(cl.maxX, x),
     minY |-> Min(cl.minY, y), maxY |-> Max(cl.maxY, y)]

getWidth(cl) == cl.maxX - cl.minX + 1
getHeight(cl) == cl.maxY - cl.minY + 1
\* a comparison that accepts a ratio equal to the factor
ratioExceeds_OrEquals(cl, factor) ==
    IF getWidth(cl) > 0 THEN getHeight(cl) >= factor * getWidth(cl) ELSE 0 >= factor

\* getHeightWidthRatio() > SURFACE_TENSION_FACTOR, without the division
ratioExceeds(cl, factor) ==
    IF getWidth(cl) > 0 THEN getHeight(cl) > factor * getWidth(cl) ELSE 0 > factor
\* x < getCenterX(), without the division
leftOfCenterX(cl, x) == 2 * x < cl.minX + cl.maxX

\* a flood fill that does not push the neighbour above
RECURSIVE floodLoop_NoUpNeighbour(_, _, _, _)
floodLoop_NoUpNeighbour(g, stack, visited, cl) ==
    IF Len(stack) = 0 THEN [cluster |-> cl, visited |-> visited]
    ELSE LET top == stack[Len(stack)]
             rest == SubSeq(stack, 1, Len(stack) - 1)
             x == top[1]
             y == top[2]
         IN IF top \in visited THEN floodLoop_NoUpNeighbour(g, rest, visited, cl)
            ELSE IF x < 0 \/ x >= GRID_WIDTH \/ y < 0 \/ y >= GRID_HEIGHT
                 THEN floodLoop_NoUpNeighbour(g, rest, visited, cl)
            ELSE IF g[top] # AIR THEN floodLoop_NoUpNeighbour(g, rest, visited, cl)
            ELSE floodLoop_NoUpNeighbour(g,
                           rest \o << <<x + 1, y>>, <<x - 1, y>>, <<x, y + 1>> >>,
                           visited \cup {top}, addCell(cl, x, y))

\* the while loop of floodFill: stack is popped from its end
RECURSIVE floodLoop(_, _, _, _)
floodLoop(g, stack, visited, cl) ==
    IF Len(stack) = 0 THEN [cluster |-> cl, visited |-> visited]
    ELSE LET top == stack[Len(stack)]
             rest == SubSeq(stack, 1, Len(stack) - 1)
             x == top[1]
             y == top[2]
         IN IF top \in visited THEN floodLoop(g, rest, visited, cl)
            ELSE IF x < 0 \/ x >= GRID_WIDTH \/ y < 0 \/ y >= GRID_HEIGHT
                 THEN floodLoop(g, rest, visited, cl)
            ELSE IF g[top] # AIR THEN floodLoop(g, rest, visited, cl)
            ELSE floodLoop(g,
                           rest \o << <<x + 1, y>>, <<x - 1, y>>,
                                      <<x, y + 1>>, <<x, y - 1>> >>,
                           visited \cup {top}, addCell(cl, x, y))

\* a flood fill that forgets the cells the earlier flood fills visited
floodFill_FreshVisited(g, startX, startY, visited) ==
    floodLoop(g, << <<startX, startY>> >>, {}, NewCluster)

floodFill(g, startX, startY, visited) ==
    floodLoop(g, << <<startX, startY>> >>, visited, NewCluster)

\* the double loop of findClusters from cell number k (y outer, x inner)
RECURSIVE findLoop(_, _, _, _)
findLoop(g, k, visited, clusters) ==
    IF k >= NumCells THEN clusters
    ELSE LET x == k % GRID_WIDTH
             y == k \div GRID_WIDTH
         IN IF g[<<x, y>>] = AIR /\ <<x, y>> \notin visited
            THEN LET r == floodFill(g, x, y, visited)
                 IN findLoop(g, k + 1, r.visited,
                             IF Cardinality(r.cluster.cells) > 0
                             THEN Append(clusters, r.cluster) ELSE clusters)
            ELSE findLoop(g, k + 1, visited, clusters)

findClusters(g) == findLoop(g, 0, {}, <<>>)

\* findClusters with the ids of the clusters: floodFill constructs each
\* cluster with the id this.nextClusterId++ (line 170).  found is
\* this.clusters so far, nextId this.nextClusterId.
RECURSIVE findLoopIds(_, _, _, _, _)
findLoopIds(g, k, visited, found, nextId) ==
    IF k >= NumCells THEN [clusters |-> found, nextClusterId |-> nextId]
    ELSE LET x == k % GRID_WIDTH
             y == k \div GRID_WIDTH
         IN IF g[<<x, y>>] = AIR /\ <<x, y>> \notin visited
            THEN LET r == floodFill(g, x, y, visited)
                     cl == [id |-> nextId, cells |-> r.cluster.cells]
                 IN findLoopIds(g, k + 1, r.visited,
                                IF Cardinality(r.cluster.cells) > 0
                                THEN Append(found, cl) ELSE found,
                                nextId + 1)
            ELSE findLoopIds(g, k + 1, visited, found, nextId)

\* the cells floodFill reads (line 179), following its two guards
RECURSIVE floodLoopReads(_, _, _)
floodLoopReads(g, stack, visited) ==
    IF Len(stack) = 0 THEN {}
    ELSE LET top == stack[Len(stack)]
             rest == SubSeq(stack, 1, Len(stack) - 1)
             x == top[1]
             y == top[2]
         IN IF top \in visited THEN floodLoopReads(g, rest, visited)
            ELSE IF x < 0 \/ x >= GRID_WIDTH \/ y < 0 \/ y >= GRID_HEIGHT
                 THEN floodLoopReads(g, rest, visited)
            ELSE {top} \cup
                 (IF At(g, x, y) # AIR THEN floodLoopReads(g, rest, visited)
                  ELSE floodLoopReads(g,
                                      rest \o << <<x + 1, y>>, <<x - 1, y>>,
                                                 <<x, y + 1>>, <<x, y - 1>> >>,
                                      visited \cup {top}))

\* the cells findClusters reads: its double loop (line 157) and its flood fills
findClustersReads(g) ==
    {<<k % GRID_WIDTH, k \div GRID_WIDTH>> : k \in 0 .. NumCells - 1} \cup
    UNION {floodLoopReads(g, <<c>>, {}) : c \in {e \in Cells : g[e] = AIR}}

\* clusterMap[`${x},${y}`] as built in update: the last cluster holding the key
clusterMapAt(clusters, x, y) ==
    LET having == {i \in 1 .. Len(clusters) : <<x, y>> \in clusters[i].cells} IN
    IF having = {} THEN NewCluster
    ELSE clusters[CHOOSE i \in having : \A j \in having : j <= i]

(***************************************************************************)
(* class BubblePhysics                                                     *)
(***************************************************************************)
\* a buoyancy that does not look at the cell it rises into
applyBuoyancy_AnyTarget(g, x, y, gravity, draw) ==
    LET riseY == y - gravity IN
    IF riseY >= 0 /\ riseY < GRID_HEIGHT /\ draw
    THEN Move(x, riseY, "buoyancy")
    ELSE Null

\* draw: Math.random() < BUOYANCY
applyBuoyancy(g, x, y, gravity, draw) ==
    LET riseY == y - gravity IN
    IF /\ riseY >= 0 /\ riseY < GRID_HEIGHT
       /\ g[<<x, riseY>>] # EMPTY
       /\ PARTICLE_DENSITY(g[<<x, riseY>>]) > PARTICLE_DENSITY(AIR)
       /\ draw
    THEN Move(x, riseY, "buoyancy")
    ELSE Null

\* draw: Math.random() < SPREAD_FORCE; a cell without cluster has cl = NewCluster
applySpreadForce(g, cl, x, y, draw) ==
    IF cl.cells = {} \/ ~ratioExceeds(cl, SURFACE_TENSION_FACTOR) THEN Null
    ELSE LET newX == x + (IF leftOfCenterX(cl, x) THEN -1 ELSE 1) IN
         IF /\ newX >= 0 /\ newX < GRID_WIDTH
            /\ \/ g[<<newX, y>>] = EMPTY
               \/ PARTICLE_DENSITY(g[<<newX, y>>]) > PARTICLE_DENSITY(AIR)
            /\ draw
         THEN Move(newX, y, "airSpread")
         ELSE Null

\* the offsets whose cell is in range and holds Air, at any distance
attractionTargets_AnyDistance(g, x, y) ==
    {d \in ((-ATTRACTION_RADIUS) .. ATTRACTION_RADIUS)
            \X ((-ATTRACTION_RADIUS) .. ATTRACTION_RADIUS) :
        /\ d # <<0, 0>>
        /\ x + d[1] >= 0 /\ x + d[1] < GRID_WIDTH
        /\ y + d[2] >= 0 /\ y + d[2] < GRID_HEIGHT
        /\ g[<<x + d[1], y + d[2]>>] = AIR}

\* the offsets whose cell is in range, holds Air and lies at distance > 1.5
\* (squared distance > 2.25)
attractionTargets(g, x, y) ==
    {d \in ((-ATTRACTION_RADIUS) .. ATTRACTION_RADIUS)
            \X ((-ATTRACTION_RADIUS) .. ATTRACTION_RADIUS) :
        /\ d # <<0, 0>>
        /\ x + d[1] >= 0 /\ x + d[1] < GRID_WIDTH
        /\ y + d[2] >= 0 /\ y + d[2] < GRID_HEIGHT
        /\ g[<<x + d[1], y + d[2]>>] = AIR
        /\ 4 * (d[1] * d[1] + d[2] * d[2]) > 9}

\* the scan is dy outer, dx inner, and keeps the first offset of least distance
scanBefore(a, b) == a[2] < b[2] \/ (a[2] = b[2] /\ a[1] <= b[1])
nearestBubble(g, x, y) ==
    LET T == attractionTargets(g, x, y)
        dist2(d) == d[1] * d[1] + d[2] * d[2]
    IN CHOOSE a \in T : \A b \in T :
           dist2(a) < dist2(b) \/ (dist2(a) = dist2(b) /\ scanBefore(a, b))

Sign(n) == IF n > 0 THEN 1 ELSE IF n < 0 THEN -1 ELSE 0

\* coh: Math.random() < COHESION; horiz: Math.random() < 0.7;
\* vert: Math.random() < 0.3
applyAttraction(g, x, y, coh, horiz, vert) ==
    IF attractionTargets(g, x, y) # {} /\ coh
    THEN LET nb == nearestBubble(g, x, y)
             newX == x + (IF horiz THEN Sign(nb[1]) ELSE 0)
             newY == y + (IF vert THEN Sign(nb[2]) ELSE 0)
         IN IF /\ newX >= 0 /\ newX < GRID_WIDTH
               /\ newY >= 0 /\ newY < GRID_HEIGHT
               /\ (newX # x \/ newY # y)
            THEN Move(newX, newY, "attraction")
            ELSE Null
    ELSE Null

(***************************************************************************)
(* class Simulation: updateParticle                                        *)
(*                                                                         *)
(* The outcome of one rule invocation for the cell (x, y): the kind of     *)
(* move, the destination that receives the particle, the value written to  *)
(* the source, and whether moveProperties is called.  The draws d are the  *)
(* outcomes of the Math.random() calls the invocation may make.            *)
(***************************************************************************)
NoMove ==
    [kind |-> "none", x |-> -1, y |-> -1, srcVal |-> EMPTY, swap |-> FALSE,
     moveProps |-> FALSE]
\* swap: srcVal is the pre-tick content of the destination (newGrid[y][x] = target),
\* otherwise the literal PARTICLE_TYPES.EMPTY
Outcome(kind, x, y, srcVal, swap, moveProps) ==
    [kind |-> kind, x |-> x, y |-> y, srcVal |-> srcVal, swap |-> swap,
     moveProps |-> moveProps]

\* a sand rule that runs the path search before the slide of a dune
sandRule_PathSearchFirst(g, p, gravity, x, y, d) ==
    LET below == g[<<x, y + gravity>>]
        props == getProperties(p, x, y)
        lateralMove == tryLateralSlide(g, x, y, props.friction, d.s1, d.s2)
        spreadMove == tryLateralSlide(g, x, y, props.friction \div 2, d.s1, d.s2)
        move == findBestPath(g, x, y, gravity, props.friction, d.leftFirst, d.s3, d.s4)
    IN IF below = AIR
       THEN IF lateralMove # Null
            THEN Outcome("barrierSlide", lateralMove.x, lateralMove.y, EMPTY, FALSE, TRUE)
            ELSE NoMove
       ELSE IF move # Null
            THEN Outcome(move.type, move.x, move.y, g[<<move.x, move.y>>], TRUE, TRUE)
       ELSE IF isSand(below) /\ spreadMove # Null
            THEN Outcome("duneSlide", spreadMove.x, spreadMove.y, EMPTY, FALSE, TRUE)
       ELSE NoMove

\* lines 693-731: SAND_HEAVY, SAND_MEDIUM, SAND_LIGHT
sandRule(g, p, gravity, x, y, d) ==
    LET below == g[<<x, y + gravity>>]
        props == getProperties(p, x, y)
        lateralMove == tryLateralSlide(g, x, y, props.friction, d.s1, d.s2)
        spreadMove == tryLateralSlide(g, x, y, props.friction \div 2, d.s1, d.s2)
        move == findBestPath(g, x, y, gravity, props.friction, d.leftFirst, d.s3, d.s4)
    IN IF below = AIR
       THEN IF lateralMove # Null
            THEN Outcome("barrierSlide", lateralMove.x, lateralMove.y, EMPTY, FALSE, TRUE)
            ELSE NoMove
       ELSE IF isSand(below) /\ spreadMove # Null
            THEN Outcome("duneSlide", spreadMove.x, spreadMove.y, EMPTY, FALSE, TRUE)
       ELSE IF move # Null
            THEN Outcome(move.type, move.x, move.y, g[<<move.x, move.y>>], TRUE, TRUE)
       ELSE NoMove

\* target === EMPTY || PARTICLE_DENSITY[target] > PARTICLE_DENSITY[AIR]
airMayEnter(t) == t = EMPTY \/ PARTICLE_DENSITY(t) > PARTICLE_DENSITY(AIR)

\* lines 734-774: AIR
airRule(g, clusters, gravity, x, y, d) ==
    LET nextY == y + gravity
        below == g[<<x, nextY>>]
        cluster == clusterMapAt(clusters, x, y)
        buoyancyMove == applyBuoyancy(g, x, y, gravity, d.buoy)
        spreadMove == applySpreadForce(g, cluster, x, y, d.spread)
        attractionMove == applyAttraction(g, x, y, d.coh, d.horiz, d.vert)
    IN IF buoyancyMove # Null
       THEN Outcome("buoyancy", buoyancyMove.x, buoyancyMove.y,
                    g[<<buoyancyMove.x, buoyancyMove.y>>], TRUE, FALSE)
       ELSE IF spreadMove # Null /\ airMayEnter(g[<<spreadMove.x, spreadMove.y>>])
            THEN Outcome("airSpread", spreadMove.x, spreadMove.y,
                         g[<<spreadMove.x, spreadMove.y>>], TRUE, FALSE)
       ELSE IF /\ attractionMove # Null
               /\ airMayEnter(g[<<attractionMove.x, attractionMove.y>>])
            THEN Outcome("attraction", attractionMove.x, attractionMove.y,
                         g[<<attractionMove.x, attractionMove.y>>], TRUE, FALSE)
       ELSE IF PARTICLE_DENSITY(below) > PARTICLE_DENSITY(AIR) /\ below # AIR
            THEN Outcome("naturalRise", x, nextY, below, TRUE, FALSE)
       ELSE NoMove

\* lines 808-820: the horizontal spread of WATER; wspread: Math.random() > 0.5,
\* wsleft: Math.random() < 0.5
waterSpread(g, x, y, d) ==
    LET sideX == x + (IF d.wsleft THEN -1 ELSE 1) IN
    IF d.wspread /\ sideX >= 0 /\ sideX < GRID_WIDTH /\ g[<<sideX, y>>] = EMPTY
    THEN Outcome("waterSpread", sideX, y, EMPTY, FALSE, FALSE)
    ELSE NoMove

\* lines 777-821: WATER; wdiag: Math.random() > 0.7, wleft: Math.random() < 0.5
waterRule(g, gravity, x, y, d) ==
    LET nextY == y + gravity
        below == g[<<x, nextY>>]
        belowDensity == PARTICLE_DENSITY(below)
        particleDensity == PARTICLE_DENSITY(g[<<x, y>>])
        shouldMove == \/ gravity > 0 /\ particleDensity > belowDensity
                      \/ gravity < 0 /\ particleDensity < belowDensity
        diagX == x + (IF d.wleft THEN -1 ELSE 1)
    IN IF shouldMove /\ (below = EMPTY \/ belowDensity < particleDensity)
       THEN Outcome("waterStraight", x, nextY, below, TRUE, FALSE)
       ELSE IF /\ shouldMove /\ d.wdiag
               /\ diagX >= 0 /\ diagX < GRID_WIDTH
               /\ \/ g[<<diagX, nextY>>] = EMPTY
                  \/ PARTICLE_DENSITY(g[<<diagX, nextY>>]) < particleDensity
            THEN Outcome("waterDiagonal", diagX, nextY, EMPTY, FALSE, FALSE)
       ELSE waterSpread(g, x, y, d)

\* a dispatch without the return for an Empty cell, whose last branch takes
\* every particle that is neither Air nor Water
updateParticle_EmptyAsSand(g, p, clusters, gravity, x, y, d) ==
    LET particle == g[<<x, y>>]
        nextY == y + gravity
    IN IF nextY < 0 \/ nextY >= GRID_HEIGHT THEN NoMove
       ELSE IF particle = AIR THEN airRule(g, clusters, gravity, x, y, d)
       ELSE IF particle = WATER THEN waterRule(g, gravity, x, y, d)
       ELSE sandRule(g, p, gravity, x, y, d)

\* a dispatch that lets an Air cell of the last row rise
updateParticle_BuoyantAtBoundary(g, p, clusters, gravity, x, y, d) ==
    LET particle == g[<<x, y>>]
        nextY == y + gravity
        rise == applyBuoyancy(g, x, y, gravity, d.buoy)
    IN IF particle = EMPTY THEN NoMove
       ELSE IF nextY < 0 \/ nextY >= GRID_HEIGHT
       THEN IF particle = AIR /\ rise # Null
            THEN Outcome("buoyancy", rise.x, rise.y, g[<<rise.x, rise.y>>], TRUE, FALSE)
            ELSE NoMove
       ELSE IF isSand(particle) THEN sandRule(g, p, gravity, x, y, d)
       ELSE IF particle = AIR THEN airRule(g, clusters, gravity, x, y, d)
       ELSE IF particle = WATER THEN waterRule(g, gravity, x, y, d)
       ELSE NoMove

\* lines 678-822
updateParticle(g, p, clusters, gravity, x, y, d) ==
    LET particle == g[<<x, y>>]
        nextY == y + gravity
    IN IF particle = EMPTY THEN NoMove
       ELSE IF nextY < 0 \/ nextY >= GRID_HEIGHT THEN NoMove
       ELSE IF isSand(particle) THEN sandRule(g, p, gravity, x, y, d)
       ELSE IF particle = AIR THEN airRule(g, clusters, gravity, x, y, d)
       ELSE IF particle = WATER THEN waterRule(g, gravity, x, y, d)
       ELSE NoMove

\* the outcomes of the draws a cell of type t can make; the draws of the other
\* branches are not made
NoDraws ==
    [s1 |-> 0, s2 |-> 0, leftFirst |-> FALSE, s3 |-> 0, s4 |-> 0,
     buoy |-> FALSE, spread |-> FALSE, coh |-> FALSE, horiz |-> FALSE, vert |-> FALSE,
     wdiag |-> FALSE, wleft |-> FALSE, wspread |-> FALSE, wsleft |-> FALSE]

\* A sand cell makes the draws s3, s4 and leftFirst only when its first slide
\* attempt yields no move, and in that case the outcome does not depend on s1
\* and s2: every outcome is the outcome of draws in which either the later draws
\* or the first two are the least ones (0 exceeds no friction).
SandDraws ==
    {[NoDraws EXCEPT !.s1 = q[1], !.s2 = q[2]] : q \in Rand \X Rand} \cup
    {[NoDraws EXCEPT !.leftFirst = q[1], !.s3 = q[2], !.s4 = q[3]] :
        q \in BOOLEAN \X Rand \X Rand}

AirDraws ==
    {[NoDraws EXCEPT !.buoy = q[1], !.spread = q[2], !.coh = q[3],
                     !.horiz = q[4], !.vert = q[5]] :
        q \in BOOLEAN \X BOOLEAN \X BOOLEAN \X BOOLEAN \X BOOLEAN}

WaterDraws ==
    {[NoDraws EXCEPT !.wdiag = q[1], !.wleft = q[2], !.wspread = q[3],
                     !.wsleft = q[4]] :
        q \in BOOLEAN \X BOOLEAN \X BOOLEAN \X BOOLEAN}

Draws(t) ==
    IF isSand(t) THEN SandDraws
    ELSE IF t = AIR THEN AirDraws
    ELSE IF t = WATER THEN WaterDraws
    ELSE {NoDraws}

(***************************************************************************)
(* The grid coordinates a rule invocation indexes this.grid with           *)
(* (grid[y][x] at <<x, y>>), following the guards of the code.  A helper   *)
(* that runs only when an earlier attempt fails is counted whenever it     *)
(* can run.                                                                *)
(***************************************************************************)
canMoveToReads(x, y) ==
    IF x < 0 \/ x >= GRID_WIDTH \/ y < 0 \/ y >= GRID_HEIGHT THEN {} ELSE {<<x, y>>}

RECURSIVE heightLoopReads(_, _, _, _)
heightLoopReads(g, x, y, dy) ==
    IF ~(dy < HEIGHT_SCAN /\ y + dy < GRID_HEIGHT) THEN {}
    ELSE {<<x, y + dy>>} \cup
         (IF isSand(At(g, x, y + dy)) \/ At(g, x, y + dy) = AIR
          THEN heightLoopReads(g, x, y, dy + 1) ELSE {})

\* the scan of getHeightBelow without its check of the column
getHeightBelowReads_Unguarded(g, x, y) == heightLoopReads(g, x, y, 1)

\* the cells getHeightBelow reads
getHeightBelowReads(g, x, y) ==
    IF x < 0 \/ x >= GRID_WIDTH THEN {} ELSE heightLoopReads(g, x, y, 1)

\* inColumn is the test the side loop makes of its column: x - 1 >= 0 on the
\* left, x + 1 < gridWidth on the right
RECURSIVE slopeLoopReads(_, _, _, _, _)
slopeLoopReads(g, sx, y, dy, inColumn) ==
    IF ~(dy < SLOPE_SCAN /\ y + dy < GRID_HEIGHT) THEN {}
    ELSE IF inColumn
         THEN {<<sx, y + dy>>} \cup
              (IF isSand(At(g, sx, y + dy))
               THEN slopeLoopReads(g, sx, y, dy + 1, inColumn) ELSE {})
    ELSE {}

calculateLocalSlopeReads(g, x, y) ==
    slopeLoopReads(g, x - 1, y, 1, x - 1 >= 0) \cup
    slopeLoopReads(g, x + 1, y, 1, x + 1 < GRID_WIDTH)

tryLateralSlideReads(g, x, y) ==
    getHeightBelowReads(g, x - 1, y) \cup getHeightBelowReads(g, x + 1, y) \cup
    UNION {IF x + dx >= 0 /\ x + dx < GRID_WIDTH
           THEN canMoveToReads(x + dx, y) \cup
                (IF canMoveTo(g, x + dx, y)
                 THEN calculateLocalSlopeReads(g, x + dx, y) ELSE {})
           ELSE {} : dx \in {-1, 1}}

RECURSIVE gapLoopReads(_, _, _, _)
gapLoopReads(g, sx, checkY, lastY) ==
    IF checkY > lastY THEN {}
    ELSE {<<sx, checkY>>} \cup
         (IF At(g, sx, checkY) = AIR \/ isSand(At(g, sx, checkY)) THEN {}
          ELSE gapLoopReads(g, sx, checkY + 1, lastY))

findGapInBarrierReads(g, x, y) ==
    UNION {IF x + dx >= 0 /\ x + dx < GRID_WIDTH
           THEN gapLoopReads(g, x + dx, y + 1, Min(y + GAP_DEPTH, GRID_HEIGHT - 1))
           ELSE {} : dx \in ((-BUBBLE_SEARCH_RADIUS) .. BUBBLE_SEARCH_RADIUS) \ {0}}

findBestPathReads(g, x, y, gravity) ==
    LET nextY == y + gravity IN
    IF nextY < 0 \/ nextY >= GRID_HEIGHT THEN {}
    ELSE canMoveToReads(x, nextY) \cup
         UNION {IF x + dx >= 0 /\ x + dx < GRID_WIDTH
                THEN canMoveToReads(x + dx, nextY) ELSE {} : dx \in {-1, 1}} \cup
         findGapInBarrierReads(g, x, y) \cup
         tryLateralSlideReads(g, x, y)

applyBuoyancyReads(x, y, gravity) ==
    IF y - gravity >= 0 /\ y - gravity < GRID_HEIGHT THEN {<<x, y - gravity>>} ELSE {}

applySpreadForceReads(cl, x, y) ==
    IF cl.cells = {} \/ ~ratioExceeds(cl, SURFACE_TENSION_FACTOR) THEN {}
    ELSE LET newX == x + (IF leftOfCenterX(cl, x) THEN -1 ELSE 1) IN
         IF newX >= 0 /\ newX < GRID_WIDTH THEN {<<newX, y>>} ELSE {}

applyAttractionReads(x, y) ==
    {<<x + d[1], y + d[2]>> :
        d \in {e \in ((-ATTRACTION_RADIUS) .. ATTRACTION_RADIUS)
                      \X ((-ATTRACTION_RADIUS) .. ATTRACTION_RADIUS) :
                  /\ e # <<0, 0>>
                  /\ x + e[1] >= 0 /\ x + e[1] < GRID_WIDTH
                  /\ y + e[2] >= 0 /\ y + e[2] < GRID_HEIGHT}}

waterReads(x, y, gravity) ==
    UNION {IF x + dx >= 0 /\ x + dx < GRID_WIDTH
           THEN {<<x + dx, y + gravity>>, <<x + dx, y>>} ELSE {} : dx \in {-1, 1}}

updateParticleReads(g, clusters, gravity, x, y) ==
    LET particle == At(g, x, y)
        nextY == y + gravity
    IN {<<x, y>>} \cup
       (IF particle = EMPTY \/ nextY < 0 \/ nextY >= GRID_HEIGHT THEN {}
        ELSE {<<x, nextY>>} \cup
             (IF isSand(particle)
              THEN tryLateralSlideReads(g, x, y) \cup findBestPathReads(g, x, y, gravity)
              ELSE IF particle = AIR
              THEN applyBuoyancyReads(x, y, gravity) \cup
                   applySpreadForceReads(clusterMapAt(clusters, x, y), x, y) \cup
                   applyAttractionReads(x, y)
              ELSE IF particle = WATER THEN waterReads(x, y, gravity)
              ELSE {}))

\* the cells an outcome writes in newGrid
outcomeWrites(x, y, o) == IF o.kind = "none" THEN {} ELSE {<<o.x, o.y>>, <<x, y>>}

(***************************************************************************)
(* class Simulation: state                                                 *)
(***************************************************************************)
VARIABLES
    grid,       \* this.grid
    props,      \* this.particleProps
    gravity,    \* this.gravity
    newGrid,    \* newGrid of update()
    pc,         \* "idle" between ticks, "scan" inside update()
    idx,        \* position of the scan loops of update()
    props0,     \* history: this.particleProps when the tick began
    origin,     \* history: the pre-tick cell of the content of each newGrid cell
    writers,    \* history: the source cells whose invocation wrote each cell
    last,       \* history: source and outcome of the latest rule invocation
    oob,        \* history: some grid access of a tick was out of range
    ticks,      \* the number of ticks begun
    scanned     \* history: the coordinates updateParticle was called with in
                \* the tick, in call order

simVars ==
    <<grid, props, gravity, newGrid, pc, idx, props0, origin, writers, last, oob, ticks,
      scanned>>

NoCell == <<-1, -1>>
NoLast == [src |-> NoCell, particle |-> EMPTY, out |-> NoMove]

\* a scan that visits the rows from the top whatever the gravity
ScanCell_IgnoresGravity(k, g) == <<k % GRID_WIDTH, k \div GRID_WIDTH>>

\* update(), lines 659-673: the k-th cell visited; rows bottom to top when
\* gravity > 0, top to bottom otherwise, x ascending in each row
ScanCell(k, g) ==
    IF g > 0 THEN <<k % GRID_WIDTH, GRID_HEIGHT - 1 - (k \div GRID_WIDTH)>>
    ELSE <<k % GRID_WIDTH, k \div GRID_WIDTH>>

\* the coordinates the scan loops visit from position a up to position b - 1
ScanRange(g, a, b) == [i \in 1 .. (b - a) |-> ScanCell(a + i - 1, g)]

\* updateParticle returns at once for an Empty cell (line 681): the scan
\* position of the model advances over Empty cells
RECURSIVE NextNonEmpty(_, _, _)
NextNonEmpty(g, grav, k) ==
    IF k >= NumCells THEN NumCells
    ELSE IF g[ScanCell(k, grav)] # EMPTY THEN k
    ELSE NextNonEmpty(g, grav, k + 1)

\* populateGrid gives every sand cell a friction and a mass in the ranges of
\* PHYSICS_PARAMS: the model draws the least or the greatest of each
SandRecords ==
    {[friction |-> SAND_FRICTION_MIN, mass |-> SAND_MASS_MIN],
     [friction |-> SAND_FRICTION_MAX, mass |-> SAND_MASS_MAX]}

\* populateGrid fills the grid with water and lays sand and air bubbles in
\* it; the rules leave Empty cells behind.  The model starts from a grid of
\* water or of Empty cells in which at most MaxParticles cells differ.
Backgrounds == {EMPTY, WATER}
CellSets == {S \in SUBSET Cells : Cardinality(S) <= MaxParticles}
InitGrid(bg, t) == [c \in Cells |-> IF c \in DOMAIN t THEN t[c] ELSE bg]

InitProps(g) ==
    LET sand == {c \in Cells : isSand(g[c])} IN
    {[c \in Cells |-> IF c \in sand THEN q[c] ELSE Undef] : q \in [sand -> SandRecords]}

IdCells == [c \in Cells |-> c]
NoWriters == [c \in Cells |-> {}]

SimInit ==
    /\ \E bg \in Backgrounds, S \in CellSets :
          \E t \in [S -> PARTICLE_TYPES \ {bg}] : grid = InitGrid(bg, t)
    /\ props \in InitProps(grid)
    /\ gravity = 1
    /\ newGrid = grid
    /\ pc = "idle"
    /\ idx = 0
    /\ props0 = props
    /\ origin = IdCells
    /\ writers = NoWriters
    /\ last = NoLast
    /\ oob = FALSE
    /\ ticks = 0
    /\ scanned = <<>>

\* number of cells that differ from the background in a grid of DenseInit
MaxDense == 3

\* A grid in the middle of a run, before its last tick: the particles have
\* mixed, so up to MaxDense cells differ from the background, and the
\* gravity has either sign.  One sand type stands for the three.
DenseTypes == {EMPTY, WATER, SAND_HEAVY, AIR}
DenseCellSets == {S \in SUBSET Cells : Cardinality(S) <= MaxDense}

DenseInit ==
    /\ \E bg \in Backgrounds, S \in DenseCellSets :
          \E t \in [S -> DenseTypes \ {bg}] : grid = InitGrid(bg, t)
    /\ props \in InitProps(grid)
    /\ gravity \in {1, -1}
    /\ newGrid = grid
    /\ pc = "idle"
    /\ idx = 0
    /\ props0 = props
    /\ origin = IdCells
    /\ writers = NoWriters
    /\ last = NoLast
    /\ oob = FALSE
    /\ ticks = MaxTicks - 1
    /\ scanned = <<>>

(***************************************************************************)
(* class Simulation: actions                                               *)
(***************************************************************************)
\* update(), lines 642-656: findClusters, the copy of the grid, clusterMap
BeginTick ==
    /\ pc = "idle"
    /\ ticks < MaxTicks
    /\ ticks' = ticks + 1
    /\ pc' = "scan"
    /\ newGrid' = grid
    /\ idx' = NextNonEmpty(grid, gravity, 0)
    /\ props0' = props
    /\ origin' = IdCells
    /\ writers' = NoWriters
    /\ last' = NoLast
    /\ oob' = (oob \/ ~(findClustersReads(grid) \subseteq Cells))
    /\ scanned' = ScanRange(gravity, 0, idx')
    /\ UNCHANGED <<grid, props, gravity>>

\* the outcomes updateParticle can have for the cell (x, y), over the draws
updateParticleOutcomes(g, p, grav, x, y) ==
    {updateParticle(g, p, findClusters(g), grav, x, y, d) : d \in Draws(g[<<x, y>>])}

\* update(), lines 659-673: one iteration of the scan loops, updateParticle
UpdateParticle ==
    /\ pc = "scan"
    /\ idx < NumCells
    /\ LET c == ScanCell(idx, gravity) IN
       \E o \in updateParticleOutcomes(grid, props, gravity, c[1], c[2]) :
            /\ newGrid' = IF o.kind = "none" THEN newGrid
                          ELSE [[newGrid EXCEPT ![<<o.x, o.y>>] = grid[c]]
                                   EXCEPT ![c] = o.srcVal]
            /\ props' = IF o.moveProps
                        THEN moveProperties(props, c[1], c[2], o.x, o.y) ELSE props
            /\ origin' = IF o.kind = "none" THEN origin
                         ELSE [[origin EXCEPT ![<<o.x, o.y>>] = c]
                                  EXCEPT ![c] = IF o.swap THEN <<o.x, o.y>> ELSE NoCell]
            /\ writers' = IF o.kind = "none" THEN writers
                          ELSE [[writers EXCEPT ![<<o.x, o.y>>] = @ \cup {c}]
                                   EXCEPT ![c] = @ \cup {c}]
            /\ last' = [src |-> c, particle |-> grid[c], out |-> o]
            /\ oob' = (oob \/ ~((updateParticleReads(grid, findClusters(grid), gravity,
                                                     c[1], c[2])
                                   \cup outcomeWrites(c[1], c[2], o)) \subseteq Cells))
    /\ idx' = NextNonEmpty(grid, gravity, idx + 1)
    /\ scanned' = scanned \o ScanRange(gravity, idx, idx')
    /\ UNCHANGED <<grid, gravity, pc, props0, ticks>>

\* update(), line 675: this.grid = newGrid
EndTick ==
    /\ pc = "scan"
    /\ idx = NumCells
    /\ grid' = newGrid
    /\ pc' = "idle"
    /\ idx' = 0
    /\ props0' = props
    /\ origin' = IdCells
    /\ writers' = NoWriters
    /\ last' = NoLast
    /\ scanned' = <<>>
    /\ UNCHANGED <<props, gravity, newGrid, oob, ticks>>

\* a flip that runs in the middle of update()
Flip_MidTick ==
    /\ gravity' = -gravity
    /\ UNCHANGED <<grid, props, newGrid, pc, idx, props0, origin, writers, last, oob,
                   ticks, scanned>>

\* flip(), line 629; the click handler runs between two animation frames
Flip ==
    /\ pc = "idle"
    /\ gravity' = -gravity
    /\ UNCHANGED <<grid, props, newGrid, pc, idx, props0, origin, writers, last, oob,
                   ticks, scanned>>

SimNext == BeginTick \/ UpdateParticle \/ EndTick \/ Flip

(***************************************************************************)
(* bubbles.js: the voxel grid of BubbleSimulator and updatePhysics         *)
(***************************************************************************)
gridWidth == 3
gridHeight == 3
MaxAir == 3

VOXEL_EMPTY == 0
VOXEL_WATER == 1
VOXEL_AIR == 2

Voxels == (0 .. gridWidth - 1) \X (0 .. gridHeight - 1)

inBounds(x, y) == x >= 0 /\ x < gridWidth /\ y >= 0 /\ y < gridHeight

\* the air is placed in the bottom rows only (lines 64-74)
bottomRows == Min(5, gridHeight)
availablePositions == {c \in Voxels : c[2] >= gridHeight - bottomRows}

RISE == 1
SPREAD == 2
FALL == 3
DONE == 4

\* the number of iterations of the loops of a pass
PassLen(pass) == IF pass = SPREAD THEN gridWidth * gridHeight
                 ELSE gridWidth * (gridHeight - 1)

\* the k-th voxel a pass visits: lines 142-143, 159-160, 186-187
PassCell(pass, k) ==
    IF pass = RISE THEN <<k % gridWidth, 1 + (k \div gridWidth)>>
    ELSE IF pass = SPREAD THEN <<k % gridWidth, k \div gridWidth>>
    ELSE <<k % gridWidth, gridHeight - 2 - (k \div gridWidth)>>

\* the conditions under which an iteration reaches a random draw
wantsRise(g, pr, x, y) ==
    ~pr[<<x, y>>] /\ g[<<x, y>>] = VOXEL_AIR /\ g[<<x, y - 1>>] = VOXEL_WATER

blockedAbove(g, x, y) == y = 0 \/ g[<<x, y - 1>>] = VOXEL_AIR

wantsSpread(g, pr, x, y) ==
    ~pr[<<x, y>>] /\ g[<<x, y>>] = VOXEL_AIR /\ y > 0 /\ blockedAbove(g, x, y)

wantsFall(g, pr, x, y) ==
    ~pr[<<x, y>>] /\ g[<<x, y>>] = VOXEL_WATER /\ g[<<x, y + 1>>] = VOXEL_AIR

wants(pass, g, pr, c) ==
    IF pass = RISE THEN wantsRise(g, pr, c[1], c[2])
    ELSE IF pass = SPREAD THEN wantsSpread(g, pr, c[1], c[2])
    ELSE wantsFall(g, pr, c[1], c[2])

\* a sideways swap that ignores the flag of the neighbour
spreadOpen_IgnoreProcessed(g, pr, nx, y) ==
    inBounds(nx, y) /\ g[<<nx, y>>] = VOXEL_WATER

\* line 170: a sideways neighbour the air voxel may swap with
spreadOpen(g, pr, nx, y) ==
    inBounds(nx, y) /\ g[<<nx, y>>] = VOXEL_WATER /\ ~pr[<<nx, y>>]

\* lines 168-180: the neighbour column the air voxel swaps with, x when none;
\* dirs is the order drawn at line 168, draws[i] the draw of line 171 for dirs[i]
RECURSIVE spreadLoop(_, _, _, _, _, _, _)
spreadLoop(g, pr, x, y, dirs, draws, i) ==
    IF i > Len(dirs) THEN x
    ELSE IF spreadOpen(g, pr, x + dirs[i], y) /\ draws[i] THEN x + dirs[i]
    ELSE spreadLoop(g, pr, x, y, dirs, draws, i + 1)

\* the first iteration at or after (pass, k) that reaches a draw; iterations
\* that do not reach one change nothing
RECURSIVE NextDraw(_, _, _, _)
NextDraw(g, pr, pass, k) ==
    IF pass = DONE THEN [pass |-> DONE, k |-> 0]
    ELSE IF k >= PassLen(pass) THEN NextDraw(g, pr, pass + 1, 0)
    ELSE IF wants(pass, g, pr, PassCell(pass, k)) THEN [pass |-> pass, k |-> k]
    ELSE NextDraw(g, pr, pass, k + 1)

NoneProcessed == [c \in Voxels |-> FALSE]

CountOf(g, v) == Cardinality({c \in DOMAIN g : g[c] = v})

VARIABLES
    voxels,     \* gridRef.current
    newVoxels,  \* newGrid of updatePhysics
    processed,  \* processed of updatePhysics
    bpass,      \* 0 between calls, else the pass updatePhysics is in
    bk,         \* position of the loops of the pass
    air0,       \* history: the number of air voxels placed at initialisation
    water0      \* history: the number of water voxels at initialisation

bubbleVars == <<voxels, newVoxels, processed, bpass, bk, air0, water0>>

\* lines 44-84: water everywhere, then targetAirVoxels air voxels at shuffled
\* positions of the bottom rows
BubbleGrids ==
    {[c \in Voxels |-> IF c \in S THEN VOXEL_AIR ELSE VOXEL_WATER] :
        S \in {S \in SUBSET availablePositions : Cardinality(S) <= MaxAir}}

BubbleInit ==
    /\ voxels \in BubbleGrids
    /\ newVoxels = voxels
    /\ processed = NoneProcessed
    /\ bpass = 0
    /\ bk = 0
    /\ air0 = CountOf(voxels, VOXEL_AIR)
    /\ water0 = CountOf(voxels, VOXEL_WATER)

\* lines 131-133: the copy of the grid and the cleared flags
BeginPhysics ==
    /\ bpass = 0
    /\ newVoxels' = voxels
    /\ processed' = NoneProcessed
    /\ LET n == NextDraw(voxels, NoneProcessed, RISE, 0) IN
           bpass' = n.pass /\ bk' = n.k
    /\ UNCHANGED <<voxels, air0, water0>>

\* the swap of two voxels in newGrid and their flags
SwapVoxels(a, va, b, vb) ==
    /\ newVoxels' = [[newVoxels EXCEPT ![a] = va] EXCEPT ![b] = vb]
    /\ processed' = [[processed EXCEPT ![a] = TRUE] EXCEPT ![b] = TRUE]

Advance ==
    LET n == NextDraw(voxels, processed', bpass, bk + 1) IN
        bpass' = n.pass /\ bk' = n.k

\* lines 142-156: one iteration of the first pass that reaches the draw
RiseStep ==
    /\ bpass = RISE
    /\ LET c == PassCell(RISE, bk) IN
       \E draw \in BOOLEAN :
          IF draw THEN SwapVoxels(<<c[1], c[2] - 1>>, VOXEL_AIR, c, VOXEL_WATER)
          ELSE UNCHANGED <<newVoxels, processed>>
    /\ Advance
    /\ UNCHANGED <<voxels, air0, water0>>

\* lines 159-183: one iteration of the second pass that reaches the draws
SpreadStep ==
    /\ bpass = SPREAD
    /\ LET c == PassCell(SPREAD, bk) IN
       \E dirs \in {<<-1, 1>>, <<1, -1>>}, draws \in [1 .. 2 -> BOOLEAN] :
          LET nx == spreadLoop(voxels, processed, c[1], c[2], dirs, draws, 1) IN
          IF nx # c[1] THEN SwapVoxels(<<nx, c[2]>>, VOXEL_AIR, c, VOXEL_WATER)
          ELSE UNCHANGED <<newVoxels, processed>>
    /\ Advance
    /\ UNCHANGED <<voxels, air0, water0>>

\* lines 186-199: one iteration of the third pass that reaches the draw
FallStep ==
    /\ bpass = FALL
    /\ LET c == PassCell(FALL, bk) IN
       \E draw \in BOOLEAN :
          IF draw THEN SwapVoxels(<<c[1], c[2] + 1>>, VOXEL_WATER, c, VOXEL_AIR)
          ELSE UNCHANGED <<newVoxels, processed>>
    /\ Advance
    /\ UNCHANGED <<voxels, air0, water0>>

\* line 200: gridRef.current = newGrid
EndPhysics ==
    /\ bpass = DONE
    /\ voxels' = newVoxels
    /\ bpass' = 0
    /\ bk' = 0
    /\ UNCHANGED <<newVoxels, processed, air0, water0>>

BubbleNext == BeginPhysics \/ RiseStep \/ SpreadStep \/ FallStep \/ EndPhysics

\* the engine that is not running
SimOff ==
    /\ grid = [c \in Cells |-> EMPTY]
    /\ props = [c \in Cells |-> Undef]
    /\ gravity = 1
    /\ newGrid = grid
    /\ pc = "off"
    /\ idx = 0
    /\ props0 = props
    /\ origin = IdCells
    /\ writers = NoWriters
    /\ last = NoLast
    /\ oob = FALSE
    /\ ticks = 0
    /\ scanned = <<>>

BubbleOff ==
    /\ voxels = [c \in Voxels |-> VOXEL_WATER]
    /\ newVoxels = voxels
    /\ processed = NoneProcessed
    /\ bpass = -1
    /\ bk = 0
    /\ air0 = 0
    /\ water0 = 0

(***************************************************************************)
(* class BubbleManager on its own: findClusters called again and again on  *)
(* one grid                                                                *)
(***************************************************************************)
\* number of calls of findClusters in a run
MaxRuns == 2

VARIABLES
    managerClusters,  \* this.clusters of the BubbleManager, with the ids
    nextClusterId,    \* this.nextClusterId
    prevClusters,     \* history: this.clusters before the latest call
    runs              \* the number of calls of findClusters

clusterVars == <<managerClusters, nextClusterId, prevClusters, runs>>

\* the grids findClusters is called with: floodFill tells Air from the rest
ClusterGrids == [Cells -> {WATER, AIR}]

\* constructor of BubbleManager (lines 144-149), and a grid
ClusterInit ==
    /\ grid \in ClusterGrids
    /\ props = [c \in Cells |-> Undef]
    /\ gravity = 1
    /\ newGrid = grid
    /\ pc = "clusters"
    /\ idx = 0
    /\ props0 = props
    /\ origin = IdCells
    /\ writers = NoWriters
    /\ last = NoLast
    /\ oob = FALSE
    /\ ticks = 0
    /\ scanned = <<>>
    /\ managerClusters = <<>>
    /\ nextClusterId = 0
    /\ prevClusters = <<>>
    /\ runs = 0

\* findClusters(grid), lines 151-167
FindClusters ==
    /\ pc = "clusters"
    /\ runs < MaxRuns
    /\ LET r == findLoopIds(grid, 0, {}, <<>>, nextClusterId) IN
          /\ managerClusters' = r.clusters
          /\ nextClusterId' = r.nextClusterId
    /\ prevClusters' = managerClusters
    /\ runs' = runs + 1
    /\ UNCHANGED <<grid, props, gravity, newGrid, pc, idx, props0, origin, writers, last,
                   oob, ticks, scanned>>

ClusterOff ==
    /\ managerClusters = <<>>
    /\ nextClusterId = 0
    /\ prevClusters = <<>>
    /\ runs = 0

(***************************************************************************)
(* src/unnamed/part_000: the SPH variant of BubbleSimulator.  Its          *)
(* updatePhysics computes densities, pressures, forces and velocities      *)
(* (passes one to four), which move no voxel, and then runs the three      *)
(* passes of the voxel grid with the loops of bubbles.js.  A velocity      *)
(* enters a pass only through the probability of a move, which it leaves   *)
(* above zero, and through the side of a spread: a draw is the outcome of  *)
(* Math.random() < probability for a probability above zero, and the side  *)
(* is an input.                                                            *)
(***************************************************************************)
\* the largest targetAirVoxels of an initialisation (line 459: at least 3)
MaxSphAir == 4

neighbours(x, y) == {<<x - 1, y>>, <<x + 1, y>>, <<x, y - 1>>, <<x, y + 1>>}

airAmong(g, S) == Cardinality({n \in S : inBounds(n[1], n[2]) /\ g[n] = VOXEL_AIR})

\* the orders in which the shuffled neighbours of a voxel are queued
Orders(S) ==
    {s \in [1 .. Cardinality(S) -> S] : \A i, j \in 1 .. Cardinality(S) : s[i] = s[j] => i = j}

\* lines 470-512: the breadth-first growth of the bubble; the sets of air
\* voxels it can end with
RECURSIVE growBubble(_, _, _, _)
growBubble(toPlace, placed, air, target) ==
    IF Cardinality(air) >= target \/ Len(toPlace) = 0 THEN {air}
    ELSE LET pos == Head(toPlace)
             fresh == {n \in neighbours(pos[1], pos[2]) :
                          inBounds(n[1], n[2]) /\ n \notin placed}
         IN IF Cardinality(air) + 1 < target
            THEN UNION {growBubble(Tail(toPlace) \o s, placed \cup fresh,
                                   air \cup {pos}, target) : s \in Orders(fresh)}
            ELSE {air \cup {pos}}

\* lines 437-513: water everywhere and one connected bubble grown from the
\* centre of the bottom row
SphGrids ==
    LET start == <<gridWidth \div 2, gridHeight - 1>> IN
    {[c \in Voxels |-> IF c \in S THEN VOXEL_AIR ELSE VOXEL_WATER] :
        S \in UNION {growBubble(<<start>>, {start}, {}, target) :
                        target \in 3 .. MaxSphAir}}

SphInit ==
    /\ voxels \in SphGrids
    /\ newVoxels = voxels
    /\ processed = NoneProcessed
    /\ bpass = 0
    /\ bk = 0
    /\ air0 = CountOf(voxels, VOXEL_AIR)
    /\ water0 = CountOf(voxels, VOXEL_WATER)

\* lines 866-903 and 987-1023: the air voxel (x, y) has a single air
\* neighbour, and that neighbour has no air neighbour but (x, y)
isolatesNeighbour(g, x, y) ==
    /\ airAmong(g, neighbours(x, y)) = 1
    /\ \E n \in neighbours(x, y) :
          /\ inBounds(n[1], n[2])
          /\ g[n] = VOXEL_AIR
          /\ airAmong(g, neighbours(n[1], n[2]) \ {<<x, y>>}) = 0

\* lines 855-859: the air neighbours counted at the new position (x, y - 1);
\* the list of lines 841-854 holds (x, y) itself
riseNeighboursAfter(g, x, y) ==
    airAmong(g, {<<x - 1, y - 1>>, <<x + 1, y - 1>>, <<x, y - 2>>, <<x, y>>})

\* lines 863-903: riseProb is set to 0
riseRejected(g, x, y) ==
    \/ riseNeighboursAfter(g, x, y) = 0
    \/ isolatesNeighbour(g, x, y)

\* lines 964-1023: moveProb of the spread of (x, y) to (nx, y) is set to 0
spreadRejected(g, x, y, nx) ==
    \/ airAmong(g, neighbours(nx, y) \ {<<x, y>>}) = 0
    \/ isolatesNeighbour(g, x, y)

\* lines 600-631: the copies of the grid and the cleared flags
SphBegin ==
    /\ bpass = 0
    /\ newVoxels' = voxels
    /\ processed' = NoneProcessed
    /\ LET n == NextDraw(voxels, NoneProcessed, RISE, 0) IN
           bpass' = n.pass /\ bk' = n.k
    /\ UNCHANGED <<voxels, air0, water0>>

\* lines 806-920: one iteration of the fifth pass that finds air under water
SphRiseStep ==
    /\ bpass = RISE
    /\ LET c == PassCell(RISE, bk) IN
       \E draw \in BOOLEAN :
          IF draw /\ ~riseRejected(voxels, c[1], c[2])
          THEN SwapVoxels(<<c[1], c[2] - 1>>, VOXEL_AIR, c, VOXEL_WATER)
          ELSE UNCHANGED <<newVoxels, processed>>
    /\ Advance
    /\ UNCHANGED <<voxels, air0, water0>>

\* lines 924-1042: one iteration of the sixth pass for an air voxel that is
\* blocked above; dir is the side of line 934
SphSpreadStep ==
    /\ bpass = SPREAD
    /\ LET c == PassCell(SPREAD, bk) IN
       \E dir \in {-1, 1}, draw \in BOOLEAN :
          LET nx == c[1] + dir IN
          IF /\ spreadOpen(voxels, processed, nx, c[2])
             /\ draw
             /\ ~spreadRejected(voxels, c[1], c[2], nx)
          THEN SwapVoxels(<<nx, c[2]>>, VOXEL_AIR, c, VOXEL_WATER)
          ELSE UNCHANGED <<newVoxels, processed>>
    /\ Advance
    /\ UNCHANGED <<voxels, air0, water0>>

\* lines 1045-1064: one iteration of the seventh pass that finds water on air
SphFallStep ==
    /\ bpass = FALL
    /\ LET c == PassCell(FALL, bk) IN
       \E draw \in BOOLEAN :
          IF draw THEN SwapVoxels(<<c[1], c[2] + 1>>, VOXEL_WATER, c, VOXEL_AIR)
          ELSE UNCHANGED <<newVoxels, processed>>
    /\ Advance
    /\ UNCHANGED <<voxels, air0, water0>>

\* line 1065: gridRef.current = newGrid
SphEnd ==
    /\ bpass = DONE
    /\ voxels' = newVoxels
    /\ bpass' = 0
    /\ bk' = 0
    /\ UNCHANGED <<newVoxels, processed, air0, water0>>

SphNext == SphBegin \/ SphRiseStep \/ SphSpreadStep \/ SphFallStep \/ SphEnd

(***************************************************************************)
(* Specifications: the sand-art engine, the bubble simulator, and the      *)
(* BubbleManager on its own                                                *)
(***************************************************************************)
vars == <<simVars, bubbleVars, clusterVars>>

Init == SimInit /\ BubbleOff /\ ClusterOff
Next == SimNext /\ UNCHANGED <<bubbleVars, clusterVars>>
Spec == Init /\ [][Next]_vars

BubbleSpecInit == BubbleInit /\ SimOff /\ ClusterOff
BubbleSpecNext == BubbleNext /\ UNCHANGED <<simVars, clusterVars>>
BubbleSpec == BubbleSpecInit /\ [][BubbleSpecNext]_vars

\* the sand-art engine in its last tick, from the grids of DenseInit
DenseSpecInit == DenseInit /\ BubbleOff /\ ClusterOff
DenseSpec == DenseSpecInit /\ [][Next]_vars

\* the SPH variant of the bubble simulator
SphSpecInit == SphInit /\ SimOff /\ ClusterOff
SphSpecNext == SphNext /\ UNCHANGED <<simVars, clusterVars>>
SphSpec == SphSpecInit /\ [][SphSpecNext]_vars

ClusterSpecInit == ClusterInit /\ BubbleOff
ClusterSpecNext == FindClusters /\ UNCHANGED bubbleVars
ClusterSpec == ClusterSpecInit /\ [][ClusterSpecNext]_vars
(***************************************************************************)
(* Properties of one tick of the sand-art engine.  In a state TickDone the *)
(* scan loops have ended: grid is the grid before the tick and newGrid is  *)
(* the grid after it.                                                      *)
(***************************************************************************)
TickDone == pc = "scan" /\ idx = NumCells

\* the cells of newGrid that hold the pre-tick content of the cell c
Now(c) == {d \in Cells : origin[d] = c}

Below(c) == <<c[1], c[2] + gravity>>

\* C1: after a tick the grid holds, for each of the six particle types, as
\* many cells of the type as before the tick.
C1_TypeCountsKept ==
    TickDone => \A t \in PARTICLE_TYPES : CountOf(newGrid, t) = CountOf(grid, t)

\* C2: within a tick no cell of newGrid is written by more than one
\* invocation of updateParticle, as a destination or as a source.
C2_SingleWriter == \A c \in Cells : Cardinality(writers[c]) <= 1

\* C3: no rule or helper of a tick, and no write of newGrid, indexes the grid
\* outside 0 .. GRID_WIDTH - 1 by 0 .. GRID_HEIGHT - 1.
C3_InRange == ~oob

\* a sand cell in the first column slid off an air bubble: the column x - 1
\* that tryLateralSlide considers is out of range
C3_Witness ==
    /\ pc = "scan"
    /\ last.src # NoCell
    /\ last.src[1] = 0
    /\ isSand(last.particle)
    /\ last.out.kind = "barrierSlide"
    /\ newGrid[<<1, last.src[2]>>] = last.particle

\* C4: a sand cell with Air directly in the gravity direction when a tick
\* begins is, after the tick, in its cell or in a horizontally adjacent cell
\* of its row, whichever invocation moved it.
C4_SandStaysAboveAir ==
    TickDone =>
        \A c \in Cells :
            (isSand(grid[c]) /\ Below(c) \in Cells /\ grid[Below(c)] = AIR)
                => \A d \in Now(c) : d[2] = c[2] /\ Abs(d[1] - c[1]) <= 1

\* C5: after a tick the record of every sand cell is stored under the cell's
\* coordinates, and no record is stored under a cell that is not sand.
C5_RecordFollowsSand ==
    TickDone =>
        \A d \in Cells :
            IF isSand(newGrid[d])
            THEN origin[d] \in Cells /\ props[d] = props0[origin[d]]
            ELSE props[d] = Undef
(***************************************************************************)
(* Properties of one invocation of updateParticle.  After an invocation    *)
(* last holds its source cell, the particle there and its outcome; grid is *)
(* still the grid the rules read.                                          *)
(***************************************************************************)
Ran(c) == pc = "scan" /\ last.src = c

Wrote(c, d) ==
    /\ last.out.kind # "none"
    /\ <<last.out.x, last.out.y>> = d
    /\ newGrid[d] = grid[c]

Lighter(t) == t = EMPTY \/ PARTICLE_DENSITY(t) < PARTICLE_DENSITY(WATER)

\* C6: under either gravity sign the rule of a Water cell whose cell in the
\* gravity direction is in range and Empty or less dense than Water moves
\* the Water straight into that cell.
C6_WaterMovesStraight ==
    \A c \in Cells :
        (Ran(c) /\ grid[c] = WATER /\ Below(c) \in Cells /\ Lighter(grid[Below(c)]))
            => last.out.kind = "waterStraight" /\ Wrote(c, Below(c))

\* the straight fall of a sand cell, as its rule reports it
FallOf(c) ==
    [kind |-> "fall", x |-> c[1], y |-> c[2] + gravity, srcVal |-> EMPTY,
     swap |-> TRUE, moveProps |-> TRUE]

SingleSand(t) == [c \in Cells |-> IF c = <<1, 0>> THEN t ELSE EMPTY]
SandFallen(t) == [c \in Cells |-> IF c = <<1, 1>> THEN t ELSE EMPTY]

\* C7: under either gravity sign a sand cell whose cell in the gravity
\* direction is in range and Empty falls straight, whatever the draws: its
\* rule writes the sand there and Empty to its own cell.  A single sand cell
\* at (1, 0) under gravity +1 is at (1, 1), and nowhere else, after one tick.
C7_StraightFallFirst ==
    /\ \A c \in Cells :
          (isSand(grid[c]) /\ Below(c) \in Cells /\ grid[Below(c)] = EMPTY)
              => /\ updateParticleOutcomes(grid, props, gravity, c[1], c[2]) = {FallOf(c)}
                 /\ Ran(c) => /\ last.out = FallOf(c)
                              /\ newGrid[Below(c)] = grid[c]
                              /\ newGrid[c] = EMPTY
    /\ \A t \in PARTICLE_TYPES :
          (isSand(t) /\ TickDone /\ gravity = 1 /\ grid = SingleSand(t))
              => newGrid = SandFallen(t)

\* the single heavy sand cell at (1, 0) has fallen to (1, 1)
C7_Witness ==
    /\ TickDone
    /\ gravity = 1
    /\ grid = SingleSand(SAND_HEAVY)
    /\ last.out = FallOf(<<1, 0>>)
    /\ newGrid[<<1, 1>>] = SAND_HEAVY

\* the Empty cells diagonally below the cell c, and beside it
EmptyDiagonals(c) ==
    {d \in Cells : d[2] = c[2] + 1 /\ Abs(d[1] - c[1]) = 1 /\ grid[d] = EMPTY}
EmptyLaterals(c) ==
    {d \in Cells : d[2] = c[2] /\ Abs(d[1] - c[1]) = 1 /\ grid[d] = EMPTY}

SandOnSand(c) ==
    /\ gravity = 1
    /\ isSand(grid[c])
    /\ Below(c) \in Cells
    /\ isSand(grid[Below(c)])
    /\ EmptyDiagonals(c) # {}

\* C8 as stated: under gravity +1 a sand cell on a sand cell, with an Empty
\* cell diagonally below it, is after one tick at one of those Empty
\* diagonal cells and nowhere else.
C8_EndsAtDiagonal ==
    TickDone =>
        \A c \in Cells :
            SandOnSand(c) => Now(c) # {} /\ Now(c) \subseteq EmptyDiagonals(c)

\* C8 amended: under gravity +1 the rule of a sand cell on a sand cell, with
\* an Empty cell diagonally below it, always moves the sand: to an Empty
\* cell beside it when the slide at half its friction succeeds, and
\* otherwise to one of the Empty diagonal cells; it writes Empty to the
\* cell the sand leaves.
C8_SlidesOrFallsDiagonally ==
    \A c \in Cells :
        (Ran(c) /\ SandOnSand(c))
            => /\ \/ /\ last.out.kind = "duneSlide"
                     /\ \E d \in EmptyLaterals(c) : Wrote(c, d)
                  \/ /\ last.out.kind = "diagonal"
                     /\ \E d \in EmptyDiagonals(c) : Wrote(c, d)
               /\ newGrid[c] = EMPTY

\* a sand cell on a sand cell, with an Empty diagonal, slid sideways
C8_Witness ==
    \E c \in Cells :
        /\ Ran(c)
        /\ SandOnSand(c)
        /\ last.out.kind = "duneSlide"
        /\ \E d \in EmptyLaterals(c) : Wrote(c, d)

\* C9: under gravity +1 a sand cell directly above an Air cell, with exactly
\* one Empty cell beside it in its row, is after one tick at that Empty cell
\* (or still in its cell, when the draw of the slide does not exceed its
\* friction), and never in the row of the Air cell or below it.
C9_SlidesOffBubble ==
    TickDone =>
        \A c \in Cells :
            (/\ gravity = 1
             /\ isSand(grid[c])
             /\ Below(c) \in Cells
             /\ grid[Below(c)] = AIR
             /\ Cardinality(EmptyLaterals(c)) = 1)
                => Now(c) # {} /\ Now(c) \subseteq ({c} \cup EmptyLaterals(c))

(***************************************************************************)
(* Properties of updatePhysics of the bubble simulator.  In a state        *)
(* PhysicsDone the three passes have ended: voxels is the grid before the  *)
(* call and newVoxels the grid after it.                                   *)
(***************************************************************************)
PhysicsDone == bpass = DONE

\* C10: every call of updatePhysics leaves the number of air voxels and the
\* number of water voxels as they were, so both stay at their values at
\* initialisation.
C10_VoxelCountsKept ==
    /\ PhysicsDone =>
          /\ CountOf(newVoxels, VOXEL_AIR) = CountOf(voxels, VOXEL_AIR)
          /\ CountOf(newVoxels, VOXEL_WATER) = CountOf(voxels, VOXEL_WATER)
    /\ bpass >= 0 =>
          /\ CountOf(voxels, VOXEL_AIR) = air0
          /\ CountOf(voxels, VOXEL_WATER) = water0

\* a call in which an air voxel rose into a column and another air voxel,
\* blocked above, spread away from that column
C10_Witness ==
    /\ PhysicsDone
    /\ air0 = MaxAir
    /\ \E x \in 0 .. gridWidth - 1, y \in 1 .. gridHeight - 2 :
          /\ voxels[<<x, y>>] = VOXEL_WATER
          /\ voxels[<<x, y + 1>>] = VOXEL_AIR
          /\ newVoxels[<<x, y>>] = VOXEL_AIR
          /\ newVoxels[<<x, y + 1>>] = VOXEL_WATER
          /\ \E nx \in {x - 1, x + 1} :
                /\ inBounds(nx, y)
                /\ voxels[<<nx, y>>] = VOXEL_AIR
                /\ voxels[<<nx, y - 1>>] = VOXEL_AIR
                /\ newVoxels[<<nx, y>>] = VOXEL_WATER

(***************************************************************************)
(* Properties of runs of the sand-art engine over several ticks.           *)
(***************************************************************************)
\* in every column no sand cell lies above a Water or Air cell and no Water
\* cell above an Air cell (above: at a smaller y, gravity being +1)
Sorted(g) ==
    \A a \in Cells, b \in Cells :
        (a[1] = b[1] /\ a[2] < b[2])
            => /\ ~(isSand(g[a]) /\ (g[b] = WATER \/ g[b] = AIR))
               /\ ~(g[a] = WATER /\ g[b] = AIR)

HoldsAll(g) ==
    /\ \E c \in Cells : isSand(g[c])
    /\ \E c \in Cells : g[c] = WATER
    /\ \E c \in Cells : g[c] = AIR

\* no invocation of a tick writes newGrid, whatever the draws: the tick
\* leaves the grid and the records as they are, and so does every later one
Resting(g, p, grav) ==
    \A c \in Cells : updateParticleOutcomes(g, p, grav, c[1], c[2]) = {NoMove}

\* C11: under constant gravity +1 repeated ticks bring every grid that holds
\* Sand, Water and Air to a density-sorted arrangement; so a grid that holds
\* the three and that no tick can change is density-sorted.
C11_RestingGridIsSorted ==
    (pc = "idle" /\ gravity = 1 /\ HoldsAll(grid) /\ Resting(grid, props, gravity))
        => Sorted(grid)

\* the rows of the cells dispatched so far in the tick, in dispatch order
\* for the gravity g: the last one is the latest source
LatestInOrder(g) ==
    \E k \in 0 .. NumCells - 1 :
        /\ k < idx
        /\ last.src = ScanCell(k, g)
        /\ NextNonEmpty(grid, g, k + 1) = idx

\* the row offset of the destination of an outcome o from its source row
RowOffset(o) == o.y - last.src[2]

\* C12: every invocation of a tick is dispatched in the scan order of the
\* gravity sign of the tick and aims at the row that sign gives; gravity is
\* always +1 or -1, a flip negates it, and it does not change while a tick is
\* in progress.
C12_OneGravityPerTick ==
    /\ [](gravity \in {1, -1})
    /\ []((pc = "scan" /\ last.src # NoCell)
            => /\ LatestInOrder(gravity)
               /\ last.out.kind \in {"fall", "diagonal", "gap", "waterStraight",
                                     "waterDiagonal", "naturalRise"}
                      => RowOffset(last.out) = gravity
               /\ last.out.kind = "buoyancy" => RowOffset(last.out) = -gravity
               /\ last.out.kind \in {"slide", "barrierSlide", "duneSlide",
                                     "airSpread", "waterSpread"}
                      => RowOffset(last.out) = 0)
    /\ [][/\ gravity' \in {gravity, -gravity}
          /\ (pc = "scan" \/ pc' = "scan") => gravity' = gravity]_vars

\* a tick under gravity -1, after a flip, in which a sand cell of the middle
\* row was dispatched after the top row and rose one row
C12_Witness ==
    /\ pc = "scan"
    /\ gravity = -1
    /\ ticks = MaxTicks
    /\ last.src # NoCell
    /\ last.src[2] = 1
    /\ isSand(last.particle)
    /\ last.out.kind = "fall"
    /\ RowOffset(last.out) = -1

\* the positions of the coordinate c among the calls of the tick
CallsWith(c) == {i \in 1 .. Len(scanned) : scanned[i] = c}

\* C13: in one tick updateParticle is called with every coordinate exactly
\* once, row by row from y = GRID_HEIGHT - 1 to 0 under gravity +1 and from 0
\* to GRID_HEIGHT - 1 under gravity -1; a call handles the particle that was
\* at its coordinate when the tick began, so a particle that a call moved
\* there is not handled again.
C13_EachCellOnce ==
    /\ pc = "scan" =>
          /\ \A c \in Cells : Cardinality(CallsWith(c)) <= 1
          /\ \A i \in 1 .. Len(scanned), j \in 1 .. Len(scanned) :
                i < j => IF gravity = 1 THEN scanned[i][2] >= scanned[j][2]
                         ELSE scanned[i][2] <= scanned[j][2]
          /\ last.src # NoCell =>
                /\ last.particle = grid[last.src]
                /\ last.particle # EMPTY
                /\ CallsWith(last.src) # {}
    /\ TickDone =>
          /\ \A c \in Cells : Cardinality(CallsWith(c)) = 1
          /\ scanned[1][2] = (IF gravity = 1 THEN GRID_HEIGHT - 1 ELSE 0)
          /\ scanned[NumCells][2] = (IF gravity = 1 THEN 0 ELSE GRID_HEIGHT - 1)

\* a sand cell slid into the Empty cell on its right, a coordinate the scan
\* of gravity +1 came to after the slide, and is there when the tick ends
C13_Witness ==
    /\ TickDone
    /\ gravity = 1
    /\ \E c \in Cells :
          LET d == <<c[1] + 1, c[2]>> IN
          /\ d \in Cells
          /\ isSand(grid[c])
          /\ grid[d] = EMPTY
          /\ origin[d] = c
          /\ newGrid[d] = grid[c]
          /\ writers[d] = {c}
          /\ \E i \in CallsWith(c), j \in CallsWith(d) : i < j

AllEmpty(g) == \A c \in Cells : g[c] = EMPTY
NoRecords == [c \in Cells |-> Undef]

\* C14: the grid whose cells are all Empty is a fixed point of the tick
\* under both gravity signs: no invocation writes, whatever the coordinate,
\* and every step of a tick or a flip leaves grid and newGrid all Empty and
\* creates no sand record.
C14_EmptyGridStays ==
    /\ [](AllEmpty(grid) => Resting(grid, props, 1) /\ Resting(grid, props, -1))
    /\ [][(AllEmpty(grid) /\ props = NoRecords)
             => (AllEmpty(grid') /\ AllEmpty(newGrid') /\ props' = NoRecords)]_vars

\* the all-Empty grid at the end of the scan of the last tick, under gravity
\* -1 after a flip
C14_Witness ==
    /\ TickDone
    /\ ticks = MaxTicks
    /\ gravity = -1
    /\ AllEmpty(grid)
    /\ AllEmpty(newGrid)
    /\ props = NoRecords
    /\ Len(scanned) = NumCells

(***************************************************************************)
(* Properties of findClusters.                                             *)
(***************************************************************************)
\* the cell sets of a sequence of clusters, and their ids
cellGroups(cs) == {cs[i].cells : i \in 1 .. Len(cs)}
clusterIds(cs) == {cs[i].id : i \in 1 .. Len(cs)}

Adjacent(a, b) == Abs(a[1] - b[1]) + Abs(a[2] - b[2]) = 1

\* the Air cells joined to the cells of S by steps between adjacent Air cells
RECURSIVE AirReach(_, _)
AirReach(g, S) ==
    LET T == S \cup {d \in Cells : g[d] = AIR /\ \E e \in S : Adjacent(d, e)} IN
    IF T = S THEN S ELSE AirReach(g, T)

AirComponents(g) == {AirReach(g, {c}) : c \in {e \in Cells : g[e] = AIR}}

\* C15: every call of findClusters on a grid yields, one cluster each, the
\* groups of 4-connected Air cells of the grid; a second call on the same
\* grid, with the id counter advanced by the first, yields the same groups.
C15_SameGroupings ==
    /\ runs >= 1 =>
          /\ cellGroups(managerClusters) = AirComponents(grid)
          /\ Len(managerClusters) = Cardinality(AirComponents(grid))
    /\ runs >= 2 => cellGroups(managerClusters) = cellGroups(prevClusters)

\* a second call that found two clusters again, one of them of three cells
\* or more, under ids the first call did not use
C15_Witness ==
    /\ runs = 2
    /\ Len(managerClusters) = 2
    /\ \E i \in 1 .. 2 : Cardinality(managerClusters[i].cells) >= 3
    /\ cellGroups(prevClusters) = cellGroups(managerClusters)
    /\ clusterIds(prevClusters) = {0, 1}
    /\ clusterIds(managerClusters) = {2, 3}

(***************************************************************************)
(* Further properties of one invocation of updateParticle.                 *)
(***************************************************************************)
\* the destination of the latest invocation
Dest == <<last.out.x, last.out.y>>

\* C16: an invocation that moves its particle exchanges two cells: the
\* destination receives the type of the source cell and the source cell the
\* type the destination held when the tick began, so no invocation erases a
\* particle.
C16_MovesAreExchanges ==
    \A c \in Cells :
        (Ran(c) /\ last.out.kind # "none")
            => /\ newGrid[Dest] = grid[c]
               /\ newGrid[c] = grid[Dest]

\* C17: the fallback of an Air cell, taken when buoyancy, spread and
\* attraction yield no move, swaps the Air with its neighbour on the buoyant
\* side, (x, y - gravity), and never moves it to (x, y + gravity).
C17_FallbackRises ==
    \A c \in Cells :
        (Ran(c) /\ grid[c] = AIR /\ last.out.kind = "naturalRise")
            => /\ Dest = <<c[1], c[2] - gravity>>
               /\ Dest # <<c[1], c[2] + gravity>>

\* C18: under either gravity sign the destination of the move a sand cell's
\* own rule makes holds neither Air nor sand when the tick begins.
C18_SandNeverEntersAirOrSand ==
    \A c \in Cells :
        (Ran(c) /\ isSand(grid[c]) /\ last.out.kind # "none")
            => grid[Dest] # AIR /\ ~isSand(grid[Dest])

\* the cells diagonally ahead of c in the gravity direction that Water may
\* enter
OpenDiagonals(c) ==
    {d \in Cells : d[2] = c[2] + gravity /\ Abs(d[1] - c[1]) = 1 /\ Lighter(grid[d])}

\* the outcomes the rule of the cell c can have in the present grid
OutcomesOf(c) == updateParticleOutcomes(grid, props, gravity, c[1], c[2])

\* C19: a Water cell with an Empty cell beside it can, for some draws, spread
\* into that cell: both when its rule can take a straight or diagonal move
\* (the spread runs as well as the move) and when it can take none.
C19_SpreadIndependentOfVertical ==
    \A c \in Cells :
        (grid[c] = WATER /\ Below(c) \in Cells /\ EmptyLaterals(c) # {})
            => \E o \in OutcomesOf(c) : <<o.x, o.y>> \in EmptyLaterals(c)

\* C20: under either gravity sign a Water cell whose cell in the gravity
\* direction is in range and neither Empty nor less dense than Water, and
\* that has a diagonal cell that is Empty or less dense than Water, moves
\* into such a diagonal cell for some draws.
C20_DiagonalWhenBlocked ==
    \A c \in Cells :
        (/\ grid[c] = WATER
         /\ Below(c) \in Cells
         /\ ~Lighter(grid[Below(c)])
         /\ OpenDiagonals(c) # {})
            => \E o \in OutcomesOf(c) :
                  o.kind = "waterDiagonal" /\ <<o.x, o.y>> \in OpenDiagonals(c)

(***************************************************************************)
(* Properties of the helpers of SandPhysics.                               *)
(***************************************************************************)
\* the rows findGapInBarrier scans below the source row y
GapRows(y) == (y + 1) .. Min(y + GAP_DEPTH, GRID_HEIGHT - 1)

\* the candidate columns: within distance 3 of x, with scanned rows that
\* hold neither Air nor sand and at least one Empty cell
ClearColumns(x, y) ==
    {sx \in 0 .. GRID_WIDTH - 1 :
        /\ sx # x
        /\ Abs(sx - x) <= BUBBLE_SEARCH_RADIUS
        /\ \A r \in GapRows(y) : grid[<<sx, r>>] # AIR /\ ~isSand(grid[<<sx, r>>])
        /\ \E r \in GapRows(y) : grid[<<sx, r>>] = EMPTY}

\* the length of the run of Empty cells of column sx that starts just below
\* the row y
RECURSIVE EmptyRun(_, _, _)
EmptyRun(sx, y, n) ==
    IF y + n + 1 \in GapRows(y) /\ grid[<<sx, y + n + 1>>] = EMPTY
    THEN EmptyRun(sx, y, n + 1) ELSE n

\* C21: the column a gap move goes to is, among the columns within distance
\* 3 that have a clear path, one whose run of contiguous Empty cells starting
\* just below the source row is longest, and among those of equally long
\* runs one at the smallest horizontal distance.
C21_GapOfLongestRun ==
    \A c \in Cells :
        (Ran(c) /\ last.out.kind = "gap")
            => /\ last.out.x \in ClearColumns(c[1], c[2])
               /\ \A sx \in ClearColumns(c[1], c[2]) :
                     \/ EmptyRun(last.out.x, c[2], 0) > EmptyRun(sx, c[2], 0)
                     \/ /\ EmptyRun(last.out.x, c[2], 0) = EmptyRun(sx, c[2], 0)
                        /\ Abs(last.out.x - c[1]) <= Abs(sx - c[1])

\* the frictions updateParticle passes to tryLateralSlide: the friction of a
\* record, or the default, whole or halved
FrictionsPassed ==
    LET whole == {SAND_FRICTION_MIN, SAND_FRICTION_MAX, DEFAULT_FRICTION} IN
    whole \cup {f \div 2 : f \in whole}

\* the side of the cell (x, y) tryLateralSlide has to try first, by the
\* stacked heights of the two neighbouring columns
LowerSide(x, y) ==
    IF getHeightBelow(grid, x - 1, y) < getHeightBelow(grid, x + 1, y) THEN -1 ELSE 1

\* the slide of (x, y) to the side dx is possible with the draw r
MaySlide(x, y, dx, friction, r) ==
    /\ <<x + dx, y>> \in Cells
    /\ grid[<<x + dx, y>>] = EMPTY
    /\ calculateLocalSlope(grid, x + dx, y) < MAX_SLOPE_RATIO
    /\ r > friction

HalvedSlides(c) ==
    LET friction == getProperties(props, c[1], c[2]).friction IN
    {tryLateralSlide(grid, c[1], c[2], friction \div 2, r1, r2) : r1 \in Rand, r2 \in Rand}

\* the moves the path search can find for the sand cell c at its full friction
FullPaths(c) ==
    LET friction == getProperties(props, c[1], c[2]).friction IN
    {findBestPath(grid, c[1], c[2], gravity, friction, q[1], q[2], q[3]) :
        q \in BOOLEAN \X Rand \X Rand}

\* the outcomes the sand-on-sand rule of lines 711-730 is to have for the
\* cell c: a slide at half the friction, and only when there is none the move
\* of the path search, or no move
SandOnSandOutcomes(c) ==
    {Outcome("duneSlide", m.x, m.y, EMPTY, FALSE, TRUE) : m \in HalvedSlides(c) \ {Null}}
        \cup (IF Null \in HalvedSlides(c)
              THEN {IF m = Null THEN NoMove
                    ELSE Outcome(m.type, m.x, m.y, grid[<<m.x, m.y>>], TRUE, TRUE) :
                        m \in FullPaths(c)}
              ELSE {})

\* the invocation of updateParticle this step makes, for the cell c
Invokes(c) ==
    /\ pc = "scan"
    /\ pc' = "scan"
    /\ idx' # idx
    /\ last'.src = c

ClustersOf(c) == {i \in 1 .. Len(managerClusters) : c \in managerClusters[i].cells}

\* C24: the cell sets findClusters returns partition the Air cells: an Air
\* cell is in exactly one cluster, a cell of another type in none, two Air
\* cells share a cluster exactly when adjacent Air cells join them, no
\* cluster is empty, and the cluster map gives an Air cell its cluster.
C24_ClustersPartitionAir ==
    runs >= 1 =>
        /\ \A c \in Cells :
              Cardinality(ClustersOf(c)) = (IF grid[c] = AIR THEN 1 ELSE 0)
        /\ \A i \in 1 .. Len(managerClusters) : managerClusters[i].cells # {}
        /\ \A a \in Cells, b \in Cells :
              (grid[a] = AIR /\ grid[b] = AIR)
                  => ((ClustersOf(a) = ClustersOf(b)) <=> (b \in AirReach(grid, {a})))
        /\ \A c \in Cells :
              grid[c] = AIR
                  => /\ c \in clusterMapAt(managerClusters, c[1], c[2]).cells
                     /\ \A i \in ClustersOf(c) :
                           clusterMapAt(managerClusters, c[1], c[2]) = managerClusters[i]

\* a call on a grid with Water cells found three clusters, one of them of two
\* cells or more
C24_Witness ==
    /\ runs = 1
    /\ Len(managerClusters) = 3
    /\ \E c \in Cells : grid[c] = WATER
    /\ \E i \in 1 .. 3 : Cardinality(managerClusters[i].cells) >= 2

\* the bounding box of the cluster of the Air cell c, from the Air cells
\* joined to it
BoxOf(c) ==
    LET comp == AirReach(grid, {c})
        xs == {d[1] : d \in comp}
        ys == {d[2] : d \in comp}
    IN [minX |-> CHOOSE v \in xs : \A w \in xs : v <= w,
        maxX |-> CHOOSE v \in xs : \A w \in xs : v >= w,
        minY |-> CHOOSE v \in ys : \A w \in ys : v <= w,
        maxY |-> CHOOSE v \in ys : \A w \in ys : v >= w]

C26_BuoyancyExchanges ==
    [][\A c \in Cells :
          (Invokes(c) /\ grid[c] = AIR /\ last'.out.kind = "buoyancy")
              => LET d == <<c[1], c[2] - gravity>> IN
                 /\ <<last'.out.x, last'.out.y>> = d
                 /\ d \in Cells
                 /\ grid[d] = WATER \/ isSand(grid[d])
                 /\ newGrid' = [[newGrid EXCEPT ![d] = AIR] EXCEPT ![c] = grid[d]]]_vars

\* under gravity -1 an Air cell rose into the sand cell below it
C26_Witness ==
    \E c \in Cells :
        /\ Ran(c)
        /\ gravity = -1
        /\ grid[c] = AIR
        /\ last.out.kind = "buoyancy"
        /\ Dest = <<c[1], c[2] + 1>>
        /\ isSand(grid[Dest])
        /\ newGrid[Dest] = AIR
        /\ isSand(newGrid[c])

\* the Air cells other than c in the 7x7 neighbourhood of c, at a Euclidean
\* distance above 1.5
FarAir(c) ==
    {e \in Cells :
        /\ grid[e] = AIR
        /\ Abs(e[1] - c[1]) <= ATTRACTION_RADIUS
        /\ Abs(e[2] - c[2]) <= ATTRACTION_RADIUS
        /\ 4 * ((e[1] - c[1]) * (e[1] - c[1]) + (e[2] - c[2]) * (e[2] - c[2])) > 9}

Dist2(a, b) == (a[1] - b[1]) * (a[1] - b[1]) + (a[2] - b[2]) * (a[2] - b[2])

NearestFarAir(c) == {e \in FarAir(c) : \A f \in FarAir(c) : Dist2(c, e) <= Dist2(c, f)}

C28_NoUnboundRise ==
    [][\A c \in Voxels :
          (bpass = RISE /\ c = PassCell(RISE, bk) /\ newVoxels' # newVoxels)
              => \E n \in neighbours(c[1], c[2] - 1) \ {c} :
                     inBounds(n[1], n[2]) /\ voxels[n] = VOXEL_AIR]_vars

(* Further properties of one invocation of updateParticle. *)
\* C29: under either gravity sign the invocation for a non-Empty cell of the
\* last row on the gravity side makes no move: it leaves the output grid and
\* the sand records as they are.
C29_LastRowStays ==
    [][\A c \in Cells :
          (Invokes(c) /\ grid[c] # EMPTY /\ Below(c) \notin Cells)
              => /\ last'.out = NoMove
                 /\ newGrid' = newGrid
                 /\ props' = props]_vars

\* under gravity -1 the rule ran for an Air cell of the top row with Water
\* under it, and for a sand cell of that row with an Empty cell beside it
C29_Witness ==
    \E c \in Cells :
        /\ Ran(c)
        /\ gravity = -1
        /\ c[2] = 0
        /\ isSand(grid[c])
        /\ EmptyLaterals(c) # {}
        /\ last.out.kind = "none"
        /\ \E a \in Cells :
              /\ a[2] = 0
              /\ a \in {scanned[i] : i \in 1 .. Len(scanned)}
              /\ grid[a] = AIR
              /\ grid[<<a[1], 1>>] = WATER
              /\ newGrid[a] = AIR

\* the reflection of the grid about its horizontal midline
Mirror(c) == <<c[1], GRID_HEIGHT - 1 - c[2]>>
MirrorGrid(g) == [c \in Cells |-> g[Mirror(c)]]
MirrorOutcome(o) == IF o.kind = "none" THEN o ELSE [o EXCEPT !.y = GRID_HEIGHT - 1 - o.y]

\* C30: the rule of a cell, for any draws, makes the mirror image of the
\* move that the rule of the mirrored cell makes in the mirrored grid under
\* the opposite gravity, for the same draws.
C30_MirrorSymmetric ==
    \A c \in Cells :
        Ran(c) =>
            \A d \in Draws(grid[c]) :
                MirrorOutcome(updateParticle(grid, props0, findClusters(grid), gravity,
                                             c[1], c[2], d))
                    = updateParticle(MirrorGrid(grid), MirrorGrid(props0),
                                     findClusters(MirrorGrid(grid)), -gravity,
                                     c[1], GRID_HEIGHT - 1 - c[2], d)
==========================================================================
